---- MODULE Spec2Model ----
(***************************************************************************)
(* Model of cookietemple's template synchronisation                        *)
(* (src/cookietemple/sync/sync.py, class TemplateSync).                    *)
(*                                                                         *)
(* Strings that the code inspects are sequences: a version string is its   *)
(* release segment (a sequence of numbers), a file path or a glob is a     *)
(* sequence of one-character strings, an option name or a pull-request     *)
(* title is a sequence of text fragments.                                  *)
(***************************************************************************)
EXTENDS Integers, Sequences, FiniteSets, TLC

\* ---------------------------------------------------------------- bounds
MaxComponent == 2      \* largest number in a version component
MaxGlobs == 2          \* longest list of blacklist globs
MaxItems == 2          \* most items in the sync_level section

\* --------------------------------------------------------------- helpers
Range(s) == {s[i] : i \in 1..Len(s)}

SeqsUpTo(S, n) == UNION {[1..k -> S] : k \in 0..n}

\* ------------------------------------------------- version comparison
\* A version string "1.2" is <<1, 2>>; packaging pads missing components
\* with 0 when .major/.minor/.micro are read.
VersionStrings == UNION {[1..k -> 0..MaxComponent] : k \in 1..3}

version_parse(s) ==
    [major |-> IF Len(s) >= 1 THEN s[1] ELSE 0,
     minor |-> IF Len(s) >= 2 THEN s[2] ELSE 0,
     micro |-> IF Len(s) >= 3 THEN s[3] ELSE 0]

Flags(ma, mi, pa) ==
    [is_major_update |-> ma, is_minor_update |-> mi, is_patch_update |-> pa]

\* mutant: the minor component is looked at before the major one
has_template_version_changed_minor_first(last_sync, current) ==
    LET a == version_parse(last_sync)
        b == version_parse(current)
    IN  IF a.minor < b.minor THEN Flags(FALSE, TRUE, FALSE)
        ELSE IF a.major < b.major THEN Flags(TRUE, FALSE, FALSE)
        ELSE IF a.micro < b.micro THEN Flags(FALSE, FALSE, TRUE)
        ELSE Flags(FALSE, FALSE, FALSE)

\* mutant: the minor test needs the micro component not to go down
has_template_version_changed_minor_micro(last_sync, current) ==
    LET a == version_parse(last_sync)
        b == version_parse(current)
    IN  IF a.major < b.major THEN Flags(TRUE, FALSE, FALSE)
        ELSE IF a.minor < b.minor /\ a.micro <= b.micro THEN Flags(FALSE, TRUE, FALSE)
        ELSE IF a.micro < b.micro THEN Flags(FALSE, FALSE, TRUE)
        ELSE Flags(FALSE, FALSE, FALSE)

\* mutant: the micro test is <= instead of <
has_template_version_changed_micro_le(last_sync, current) ==
    LET a == version_parse(last_sync)
        b == version_parse(current)
    IN  IF a.major < b.major THEN Flags(TRUE, FALSE, FALSE)
        ELSE IF a.minor < b.minor THEN Flags(FALSE, TRUE, FALSE)
        ELSE IF a.micro <= b.micro THEN Flags(FALSE, FALSE, TRUE)
        ELSE Flags(FALSE, FALSE, FALSE)

\* the if / elif / elif cascade of has_template_version_changed
has_template_version_changed(last_sync, current) ==
    LET a == version_parse(last_sync)
        b == version_parse(current)
    IN  IF a.major < b.major THEN Flags(TRUE, FALSE, FALSE)
        ELSE IF a.minor < b.minor THEN Flags(FALSE, TRUE, FALSE)
        ELSE IF a.micro < b.micro THEN Flags(FALSE, FALSE, TRUE)
        ELSE Flags(FALSE, FALSE, FALSE)

\* ------------------------------------------------------- the sync level
\* An option name is a sequence of text fragments; "ct_sync_level" is one
\* fragment, so <<"old_", "ct_sync_level">> is the name old_ct_sync_level.
OptionNames == {<<"ct_sync_level">>, <<"old_", "ct_sync_level">>, <<"level">>}
OptionValues == {"patch", "minor", "major", "all"}
Items == [name : OptionNames, value : OptionValues]

\* Python's  needle in haystack  on strings
Contains(haystack, needle) == \E i \in 1..Len(haystack) : haystack[i] = needle

DistinctNames(items) ==
    \A i, j \in 1..Len(items) : i # j => items[i].name # items[j].name

\* A section of cookietemple.cfg: absent (also when the file is absent,
\* ConfigParser.read skips missing files), or a list of items.
NoSection == [present |-> FALSE, items |-> <<>>]
Section(items) == [present |-> TRUE, items |-> items]
SyncLevelSections ==
    {NoSection} \cup {Section(s) : s \in {t \in SeqsUpTo(Items, MaxItems) : DistinctNames(t)}}

Fatal == [fatal |-> TRUE, result |-> FALSE]
Returns(b) == [fatal |-> FALSE, result |-> b]

\* mutant: a patch update is only refused at level major
check_sync_level_patch_minor(section, patch_update, minor_update) ==
    IF ~section.present THEN Fatal
    ELSE LET level_item == section.items IN
         IF \/ Len(level_item) # 1
            \/ ~Contains(level_item[1].name, "ct_sync_level")
            \/ ~(\E valid_lvl \in {"major", "minor", "patch"} : level_item[1].value = valid_lvl)
         THEN Fatal
         ELSE IF patch_update
              THEN Returns(level_item[1].value # "major")
              ELSE IF minor_update
                   THEN Returns(level_item[1].value # "major")
                   ELSE Returns(TRUE)

\* mutant: a minor update is refused at level minor as well
check_sync_level_minor_strict(section, patch_update, minor_update) ==
    IF ~section.present THEN Fatal
    ELSE LET level_item == section.items IN
         IF \/ Len(level_item) # 1
            \/ ~Contains(level_item[1].name, "ct_sync_level")
            \/ ~(\E valid_lvl \in {"major", "minor", "patch"} : level_item[1].value = valid_lvl)
         THEN Fatal
         ELSE IF patch_update
              THEN Returns(level_item[1].value # "minor" /\ level_item[1].value # "major")
              ELSE IF minor_update
                   THEN Returns(level_item[1].value # "major" /\ level_item[1].value # "minor")
                   ELSE Returns(TRUE)

\* check_sync_level: fatal (sys.exit) or the returned boolean
check_sync_level(section, patch_update, minor_update) ==
    IF ~section.present THEN Fatal
    ELSE LET level_item == section.items IN
         IF \/ Len(level_item) # 1
            \/ ~Contains(level_item[1].name, "ct_sync_level")
            \/ ~(\E valid_lvl \in {"major", "minor", "patch"} : level_item[1].value = valid_lvl)
         THEN Fatal
         ELSE IF patch_update
              THEN Returns(level_item[1].value # "minor" /\ level_item[1].value # "major")
              ELSE IF minor_update
                   THEN Returns(level_item[1].value # "major")
                   ELSE Returns(TRUE)

\* ------------------------------------------------------ blacklist globs
\* fnmatch on POSIX: * matches any run of characters (also "/"), ? matches
\* one character, every other character matches itself.  Character classes
\* are not part of the patterns drawn here.
RECURSIVE fnmatch(_, _)
fnmatch(name, pat) ==
    IF pat = <<>> THEN name = <<>>
    ELSE IF Head(pat) = "*"
         THEN \/ fnmatch(name, Tail(pat))
              \/ (name # <<>> /\ fnmatch(Tail(name), pat))
         ELSE /\ name # <<>>
              /\ (Head(pat) = "?" \/ Head(pat) = Head(name))
              /\ fnmatch(Tail(name), Tail(pat))

fnmatch_filter(names, pat) == SelectSeq(names, LAMBDA n : fnmatch(n, pat))

\* mutant: only the first glob is applied
blacklisted_first_glob_only(changed, globs) ==
    IF globs = <<>> THEN <<>> ELSE fnmatch_filter(changed, Head(globs))

\* the loop  for pattern in globs: blacklisted += fnmatch.filter(...)
RECURSIVE blacklisted_changed_files(_, _)
blacklisted_changed_files(changed, globs) ==
    IF globs = <<>> THEN <<>>
    ELSE fnmatch_filter(changed, Head(globs)) \o blacklisted_changed_files(changed, Tail(globs))

\* [file for file in changed_files if file not in blacklisted_changed_files]
files_to_commit(changed, blacklisted) ==
    SelectSeq(changed, LAMBDA f : f \notin Range(blacklisted))

\* the files and globs the model draws from
File_a_t == <<"a", ".", "t">>
File_b_c_m == <<"b", "/", "c", ".", "m">>
File_d_y == <<"d", ".", "y">>
AllFiles == <<File_a_t, File_b_c_m, File_d_y>>
AllGlobs == {<<"*", ".", "m">>, <<"b", "/", "*">>, <<"?", ".", "y">>, <<"*">>, <<"a", ".", "t">>}

\* the changed paths in the order the index diff lists them
ChangedLists == {SelectSeq(AllFiles, LAMBDA f : f \in S) : S \in SUBSET Range(AllFiles)}
GlobLists == SeqsUpTo(AllGlobs, MaxGlobs)

\* -------------------------------------------------- pull-request titles
\* A title is a sequence of fragments; a fragment is literal text or a
\* version string.
Text(t) == [text |-> t, ver |-> <<>>]
Ver(v) == [text |-> "", ver |-> v]
SyncTitleText == Text("Important cookietemple template update")

\* a title that leaves the version out
pr_title_without_version(version) == <<SyncTitleText, Text(" released!")>>

\* f'Important cookietemple template update {new_template_version} released!'
pr_title(version) == <<SyncTitleText, Text(" "), Ver(version), Text(" released!")>>

\* ------------------------------------------ what one session draws from
V123 == <<1, 2, 3>>
V124 == <<1, 2, 4>>
V130 == <<1, 3, 0>>
V200 == <<2, 0, 0>>
SessionProjectVersions == {V123, V200}
SessionTemplateVersions == {V123, V124, V130, V200}

Level(v) == Section(<<[name |-> <<"ct_sync_level">>, value |-> v]>>)
SessionSyncLevels ==
    {NoSection, Level("patch"), Level("minor"), Level("major"), Level("all"),
     Section(<<[name |-> <<"old_", "ct_sync_level">>, value |-> "minor"]>>)}

SessionBlacklists ==
    {NoSection, Section(<<>>), Section(<<<<"*", ".", "m">>>>),
     Section(<<<<"*", ".", "m">>, <<"*">>>>)}

OpenPullRequests ==
    {[title |-> pr_title(V123), head |-> "TEMPLATE", base |-> "development"],
     [title |-> <<Text("Revert "), SyncTitleText>>, head |-> "feature", base |-> "development"],
     [title |-> <<Text("Fix typo")>>, head |-> "feature", base |-> "development"]}

\* An entry of the project root: its name and what os.path says it is.
\* "file": isfile; "dir": isdir; "dir_link": a link to a directory (isdir,
\* and shutil.rmtree refuses it); "other": neither (a dangling link, a fifo).
Entry(name, kind) == [name |-> name, kind |-> kind]
GitDir == Entry(".git", "dir")
TemplateEntries == {Entry("README", "file"), Entry("src", "dir")}
ProjectRoot == {GitDir} \cup TemplateEntries
RootEntries ==
    TemplateEntries \cup
    {Entry(".github", "dir"), Entry("latest", "other"), Entry("fifo", "other"), Entry("venv", "dir_link")}
RootListings == {{GitDir} \cup S : S \in SUBSET RootEntries}

isfile(e) == e.kind = "file"
isdir(e) == e.kind \in {"dir", "dir_link"}

\* ---------------------------------------------------------------- state
VARIABLES
    pc,                        \* where the process is
    exit_code,                 \* the status the process ended with (pc = "exited")
    ending,                    \* the way the session ended, or is about to
    project_template_version,  \* the version in the project's .cookietemple.yml
    ct_template_version,       \* the version in available_templates.yml
    cfg_sync_level,            \* cookietemple.cfg, section sync_level
    origin_TEMPLATE,           \* the remote has a TEMPLATE branch
    local_branches,            \* the local branches of the repository
    active_branch,             \* repo.active_branch.name
    version_changed,           \* <<>> or what has_template_version_changed returned
    major_update,
    minor_update,
    patch_update,
    new_template_version,
    original_branch,
    from_branch,
    made_changes,
    changed_files,             \* what regeneration changed, in index order
    cfg_blacklist,             \* regenerated cookietemple.cfg, sync_files_blacklisted
    index,                     \* the staged paths
    blacklisted,               \* blacklisted_changed_files of commit_template_changes
    commit_args,               \* the paths handed to git commit
    commit_proc,               \* the git commit child: none, spawned, done, failed
    stash_proc,                \* the git stash child
    commits,                   \* the commits the git commit child made
    stash,                     \* the paths the git stash child saved
    pushes,                    \* for each push, the commits that existed
    queries,                   \* the answers to the open-PR query
    pr_posts,                  \* the pull requests posted
    run,                       \* 1 in the first run of the command, 2 in a second one
    unsynced,                  \* the template files the TEMPLATE branch does not hold yet
    template_checkouts,        \* the checkouts checkout_template_branch tried
    remote_ops,                \* the push, query and post requests made, failed ones too
    root_entries               \* os.listdir(project_dir), each entry with what it is

inputs == <<project_template_version, ct_template_version, cfg_sync_level, origin_TEMPLATE, run>>
repo == <<local_branches, active_branch>>
session == <<major_update, minor_update, patch_update, new_template_version, original_branch, from_branch, made_changes>>
regen == <<changed_files, cfg_blacklist, unsynced, root_entries>>
staging == <<blacklisted, commit_args>>
children == <<index, commit_proc, stash_proc, commits, stash>>
remote == <<pushes, queries, pr_posts>>
hist == <<template_checkouts, remote_ops>>
vars == <<pc, exit_code, ending, inputs, repo, version_changed, session, regen, staging, children, remote, hist>>

None == "None"

\* the pieces of a state in which nothing has happened yet
Running == exit_code = 0 /\ ending = "running" /\ run = 1 /\ template_checkouts = <<>>

NotCompared == version_changed = <<>>

Unregenerated == changed_files = <<>> /\ cfg_blacklist = NoSection /\ unsynced = {}

NothingStaged ==
    /\ index = {}
    /\ blacklisted = <<>>
    /\ commit_args = <<>>
    /\ commit_proc = "none"
    /\ stash_proc = "none"
    /\ commits = <<>>
    /\ stash = {}

NothingSent == pushes = <<>> /\ queries = <<>> /\ pr_posts = <<>> /\ remote_ops = <<>>

\* the fields TemplateSync.__init__ sets
Constructed(major, minor, patch, version) ==
    /\ major_update = major
    /\ minor_update = minor
    /\ patch_update = patch
    /\ new_template_version = version
    /\ original_branch = None
    /\ from_branch = None
    /\ made_changes = FALSE

\* A run of the sync command from its start.
Init ==
    /\ pc = "version"
    /\ Running
    /\ NotCompared
    /\ Constructed(FALSE, FALSE, FALSE, <<>>)
    /\ Unregenerated
    /\ root_entries = ProjectRoot
    /\ NothingStaged
    /\ NothingSent
    /\ project_template_version \in SessionProjectVersions
    /\ ct_template_version \in SessionTemplateVersions
    /\ cfg_sync_level \in SessionSyncLevels
    /\ origin_TEMPLATE \in BOOLEAN
    /\ local_branches \in {{"feature"} \cup B : B \in SUBSET {"development", "master", "TEMPLATE"}}
    /\ active_branch = "feature"

\* has_template_version_changed alone, on every pair of version strings.
InitVersion ==
    /\ pc = "version"
    /\ Running
    /\ NotCompared
    /\ Constructed(FALSE, FALSE, FALSE, <<>>)
    /\ Unregenerated
    /\ root_entries = ProjectRoot
    /\ NothingStaged
    /\ NothingSent
    /\ project_template_version \in VersionStrings
    /\ ct_template_version \in VersionStrings
    /\ cfg_sync_level = Level("patch")
    /\ origin_TEMPLATE = TRUE
    /\ local_branches \in {{"feature"} \cup B : B \in SUBSET {"development", "master"}}
    /\ active_branch = "feature"

\* check_sync_level alone, on every sync_level section and every
\* combination of flags a TemplateSync can be constructed with.
InitLevel ==
    /\ pc = "gate"
    /\ Running
    /\ NotCompared
    /\ \E major, minor, patch \in BOOLEAN : Constructed(major, minor, patch, V124)
    /\ Unregenerated
    /\ root_entries = ProjectRoot
    /\ NothingStaged
    /\ NothingSent
    /\ project_template_version = V123
    /\ ct_template_version = V124
    /\ cfg_sync_level \in SyncLevelSections
    /\ origin_TEMPLATE = TRUE
    /\ local_branches = {"feature", "development"}
    /\ active_branch = "development"

\* commit_template_changes alone, on the sync branch after regeneration, for
\* every list of changed files and every list of globs.
InitFilter ==
    /\ pc = "commit"
    /\ exit_code = 0
    /\ ending = "running"
    /\ run = 1
    /\ template_checkouts = <<[ref |-> "origin/TEMPLATE", new_branch |-> TRUE, ok |-> FALSE],
                              [ref |-> "TEMPLATE", new_branch |-> FALSE, ok |-> TRUE]>>
    /\ version_changed = <<[flags |-> has_template_version_changed(V123, V200), last_sync |-> V123, current |-> V200]>>
    /\ major_update = TRUE
    /\ minor_update = FALSE
    /\ patch_update = FALSE
    /\ new_template_version = V200
    /\ original_branch = "development"
    /\ from_branch = "development"
    /\ made_changes = FALSE
    /\ changed_files \in ChangedLists
    /\ unsynced = Range(changed_files)
    /\ root_entries = ProjectRoot
    /\ cfg_blacklist \in {NoSection} \cup {Section(g) : g \in GlobLists}
    /\ NothingStaged
    /\ NothingSent
    /\ project_template_version = V123
    /\ ct_template_version = V200
    /\ cfg_sync_level = Level("patch")
    /\ origin_TEMPLATE = TRUE
    /\ local_branches = {"feature", "development", "TEMPLATE"}
    /\ active_branch = "TEMPLATE"

\* sys.exit(code), or an exception nobody catches (code 1)
Exit(code, how) ==
    /\ pc' = "exited"
    /\ exit_code' = code
    /\ ending' = how

\* ------------------------------------------------ before the session
\* has_template_version_changed: check out development, else master, else
\* give up; then compare the two versions.
VersionCheck ==
    /\ pc = "version"
    /\ IF "development" \in local_branches \/ "master" \in local_branches
       THEN /\ active_branch' = IF "development" \in local_branches THEN "development" ELSE "master"
            /\ version_changed' =
                   <<[flags |-> has_template_version_changed(project_template_version, ct_template_version),
                      last_sync |-> project_template_version,
                      current |-> ct_template_version]>>
            /\ pc' = "construct"
            /\ UNCHANGED <<exit_code, ending>>
       ELSE /\ Exit(1, "version_checkout_failed")
            /\ UNCHANGED <<active_branch, version_changed>>
    /\ UNCHANGED <<inputs, local_branches, session, regen, staging, children, remote, hist>>

\* TemplateSync.__init__ with the flags and the version the comparison gave
TemplateSyncInit ==
    /\ pc = "construct"
    /\ major_update' = version_changed[1].flags.is_major_update
    /\ minor_update' = version_changed[1].flags.is_minor_update
    /\ patch_update' = version_changed[1].flags.is_patch_update
    /\ new_template_version' = version_changed[1].current
    /\ original_branch' = None
    /\ made_changes' = FALSE
    /\ pc' = "gate"
    /\ UNCHANGED <<exit_code, ending, inputs, repo, version_changed, from_branch, regen, staging, children, remote, hist>>

\* The caller of sync(): the policy filter gates the session.
SyncGate ==
    /\ pc = "gate"
    /\ LET r == check_sync_level(cfg_sync_level, patch_update, minor_update) IN
       \/ r.fatal /\ Exit(1, "config_error_sync_level")
       \/ ~r.fatal /\ r.result /\ pc' = "inspect" /\ UNCHANGED <<exit_code, ending>>
       \/ ~r.fatal /\ ~r.result /\ Exit(0, "level_refused")
    /\ UNCHANGED <<inputs, repo, version_changed, session, regen, staging, children, remote, hist>>

\* ------------------------------------------------------------- sync()
\* inspect_sync_dir without the sys.exit of the check for uncommitted changes
inspect_sync_dir_no_exit ==
    /\ pc = "inspect"
    /\ \/ /\ Exit(1, "no_metadata")
          /\ UNCHANGED original_branch
       \/ /\ Exit(1, "not_a_repository")
          /\ UNCHANGED original_branch
       \/ /\ original_branch' = active_branch
          /\ ending' = "uncommitted_changes"
          /\ pc' = "checkout"
          /\ UNCHANGED exit_code
       \/ /\ original_branch' = active_branch
          /\ index = {}
          /\ pc' = "checkout"
          /\ UNCHANGED <<exit_code, ending>>
    /\ UNCHANGED <<inputs, repo, version_changed, major_update, minor_update, patch_update,
                   new_template_version, from_branch, made_changes, regen, staging, children, remote, hist>>

inspect_sync_dir ==
    /\ pc = "inspect"
    /\ \/ /\ Exit(1, "no_metadata")
          /\ UNCHANGED original_branch
       \/ /\ Exit(1, "not_a_repository")
          /\ UNCHANGED original_branch
       \/ /\ original_branch' = active_branch
          /\ Exit(1, "uncommitted_changes")
       \/ /\ original_branch' = active_branch
          /\ index = {}
          /\ pc' = "checkout"
          /\ UNCHANGED <<exit_code, ending>>
    /\ UNCHANGED <<inputs, repo, version_changed, major_update, minor_update, patch_update,
                   new_template_version, from_branch, made_changes, regen, staging, children, remote, hist>>

\* one checkout that checkout_template_branch tries
Attempt(ref, new_branch, ok) == [ref |-> ref, new_branch |-> new_branch, ok |-> ok]

\* checkout_template_branch that tries the local branch before the remote one
checkout_template_branch_local_first ==
    /\ pc = "checkout"
    /\ from_branch' = active_branch
    /\ IF "TEMPLATE" \in local_branches
       THEN /\ template_checkouts' = template_checkouts \o <<Attempt("TEMPLATE", FALSE, TRUE)>>
            /\ active_branch' = "TEMPLATE"
            /\ pc' = "delete"
            /\ UNCHANGED <<exit_code, ending, local_branches>>
       ELSE IF origin_TEMPLATE
       THEN /\ template_checkouts' = template_checkouts \o
                   <<Attempt("TEMPLATE", FALSE, FALSE), Attempt("origin/TEMPLATE", TRUE, TRUE)>>
            /\ local_branches' = local_branches \cup {"TEMPLATE"}
            /\ active_branch' = "TEMPLATE"
            /\ pc' = "delete"
            /\ UNCHANGED <<exit_code, ending>>
       ELSE /\ template_checkouts' = template_checkouts \o
                   <<Attempt("TEMPLATE", FALSE, FALSE), Attempt("origin/TEMPLATE", TRUE, FALSE)>>
            /\ Exit(1, "checkout_failed")
            /\ UNCHANGED repo
    /\ UNCHANGED <<inputs, version_changed, major_update, minor_update, patch_update,
                   new_template_version, original_branch, made_changes, regen, staging, children, remote, remote_ops>>

checkout_template_branch ==
    /\ pc = "checkout"
    \* The read of the active branch succeeded in inspect_sync_dir just before;
    \* the handler around this one only prints and goes on.
    /\ from_branch' = active_branch
    /\ IF origin_TEMPLATE /\ "TEMPLATE" \notin local_branches
       THEN \* git checkout origin/TEMPLATE -b TEMPLATE
            /\ template_checkouts' = template_checkouts \o <<Attempt("origin/TEMPLATE", TRUE, TRUE)>>
            /\ local_branches' = local_branches \cup {"TEMPLATE"}
            /\ active_branch' = "TEMPLATE"
            /\ pc' = "delete"
            /\ UNCHANGED <<exit_code, ending>>
       ELSE IF "TEMPLATE" \in local_branches
       THEN \* git checkout TEMPLATE
            /\ template_checkouts' = template_checkouts \o
                   <<Attempt("origin/TEMPLATE", TRUE, FALSE), Attempt("TEMPLATE", FALSE, TRUE)>>
            /\ active_branch' = "TEMPLATE"
            /\ pc' = "delete"
            /\ UNCHANGED <<exit_code, ending, local_branches>>
       ELSE /\ template_checkouts' = template_checkouts \o
                   <<Attempt("origin/TEMPLATE", TRUE, FALSE), Attempt("TEMPLATE", FALSE, FALSE)>>
            /\ Exit(1, "checkout_failed")
            /\ UNCHANGED repo
    /\ UNCHANGED <<inputs, version_changed, major_update, minor_update, patch_update,
                   new_template_version, original_branch, made_changes, regen, staging, children, remote, remote_ops>>

\* The loop over os.listdir: .git is skipped by name, a file is unlinked, a
\* directory is removed with its content, any other entry is passed over; an
\* exception of os.unlink or shutil.rmtree ends the process where the loop is.
delete_template_branch_files ==
    /\ pc = "delete"
    /\ LET visited == {e \in root_entries : e.name # ".git"}
           removed == {e \in visited : isfile(e) \/ isdir(e)}
       IN
       \/ /\ \A e \in removed : e.kind # "dir_link"
          /\ root_entries' = root_entries \ removed
          /\ pc' = "make"
          /\ UNCHANGED <<exit_code, ending>>
       \/ \E raised \in removed : \E gone \in SUBSET (removed \ {raised}) :
             /\ \A e \in gone : e.kind # "dir_link"
             /\ root_entries' = root_entries \ gone
             /\ Exit(1, "delete_failed")
    /\ UNCHANGED <<inputs, repo, version_changed, session, changed_files, cfg_blacklist, unsynced,
                   staging, children, remote, hist>>

\* The regenerated project replaces the files, cookietemple.cfg included.
make_template_project ==
    /\ pc = "make"
    /\ \/ /\ IF run = 1
             THEN /\ changed_files' \in ChangedLists
                  /\ cfg_blacklist' \in SessionBlacklists
             ELSE \* the same template as in the first run
                  /\ changed_files' = SelectSeq(AllFiles, LAMBDA f : f \in unsynced)
                  /\ UNCHANGED cfg_blacklist
          /\ unsynced' = Range(changed_files')
          \* copy_tree of the fresh project into project_dir
          /\ root_entries' = root_entries \cup TemplateEntries
          /\ pc' = "commit"
          /\ UNCHANGED <<exit_code, ending>>
       \/ /\ Exit(1, "regeneration_failed")
          /\ UNCHANGED regen
    /\ UNCHANGED <<inputs, repo, version_changed, session, staging, children, remote, hist>>

get_blacklisted_sync_globs == cfg_blacklist.items

\* commit_template_changes that sets made_changes whether or not the index is dirty
commit_template_changes_always ==
    /\ pc = "commit"
    /\ IF changed_files = <<>>
       THEN /\ made_changes' = TRUE
            /\ pc' = "push"
            /\ UNCHANGED <<exit_code, ending, staging, index, commit_proc, stash_proc>>
       ELSE \/ /\ Exit(1, "commit_failed")
               /\ UNCHANGED <<made_changes, staging, index, commit_proc, stash_proc>>
            \/ /\ ~cfg_blacklist.present
               /\ index' = Range(changed_files)
               /\ Exit(1, "config_error_globs")
               /\ UNCHANGED <<made_changes, staging, commit_proc, stash_proc>>
            \/ /\ cfg_blacklist.present
               /\ index' = Range(changed_files)
               /\ blacklisted' = blacklisted_changed_files(changed_files, cfg_blacklist.items)
               /\ commit_args' = files_to_commit(changed_files, blacklisted')
               /\ commit_proc' = "spawned"
               /\ stash_proc' = "spawned"
               /\ made_changes' = TRUE
               /\ pc' = "push"
               /\ UNCHANGED <<exit_code, ending>>
    /\ UNCHANGED <<inputs, repo, version_changed, major_update, minor_update, patch_update,
                   new_template_version, original_branch, from_branch, regen, commits, stash, remote, hist>>

\* `if self.made_changes` of sync() follows at once
commit_template_changes ==
    /\ pc = "commit"
    /\ IF changed_files = <<>>
       THEN /\ pc' = "reset"
            /\ UNCHANGED <<exit_code, ending, made_changes, staging, index, commit_proc, stash_proc>>
       ELSE \/ \* git add or the index diff raises
               /\ Exit(1, "commit_failed")
               /\ UNCHANGED <<made_changes, staging, index, commit_proc, stash_proc>>
            \/ \* no sync_files_blacklisted section
               /\ ~cfg_blacklist.present
               /\ index' = Range(changed_files)
               /\ Exit(1, "config_error_globs")
               /\ UNCHANGED <<made_changes, staging, commit_proc, stash_proc>>
            \/ /\ cfg_blacklist.present
               /\ index' = Range(changed_files)
               /\ blacklisted' = blacklisted_changed_files(changed_files, get_blacklisted_sync_globs)
               /\ commit_args' = files_to_commit(changed_files, blacklisted')
               /\ \/ \* Popen of git commit raises
                     /\ Exit(1, "commit_failed")
                     /\ UNCHANGED <<made_changes, commit_proc, stash_proc>>
                  \/ \* Popen of git stash raises
                     /\ commit_proc' = "spawned"
                     /\ Exit(1, "commit_failed")
                     /\ UNCHANGED <<made_changes, stash_proc>>
                  \/ /\ commit_proc' = "spawned"
                     /\ stash_proc' = "spawned"
                     /\ made_changes' = TRUE
                     /\ pc' = "push"
                     /\ UNCHANGED <<exit_code, ending>>
    /\ UNCHANGED <<inputs, repo, version_changed, major_update, minor_update, patch_update,
                   new_template_version, original_branch, from_branch, regen, commits, stash, remote, hist>>

\* The child  git commit -m 'Cookietemple sync' <paths>: without paths it
\* commits the whole index, with paths only those.  Nobody waits for it.
GitCommit ==
    /\ commit_proc = "spawned"
    /\ \/ /\ index # {}
          /\ LET taken == IF commit_args = <<>> THEN index ELSE Range(commit_args) IN
             /\ commits' = Append(commits, [branch |-> active_branch, files |-> taken])
             /\ index' = index \ taken
             /\ unsynced' = IF active_branch = "TEMPLATE" THEN unsynced \ taken ELSE unsynced
          /\ commit_proc' = "done"
       \/ /\ commit_proc' = "failed"
          /\ UNCHANGED <<commits, index, unsynced>>
    /\ UNCHANGED <<pc, exit_code, ending, inputs, repo, version_changed, session, changed_files, cfg_blacklist,
                   root_entries, staging, stash_proc, stash, remote, hist>>

\* The child  git stash.
GitStash ==
    /\ stash_proc = "spawned"
    /\ \/ /\ stash' = index
          /\ index' = {}
          /\ stash_proc' = "done"
       \/ /\ stash_proc' = "failed"
          /\ UNCHANGED <<stash, index>>
    /\ UNCHANGED <<pc, exit_code, ending, inputs, repo, version_changed, session, regen, staging, commit_proc, commits, remote, hist>>

\* one request to the remote or to the hosting service
Request(op, ok) == [op |-> op, ok |-> ok]

\* push_template_branch that pushes once more after a failed push
push_template_branch_retries ==
    /\ pc = "push"
    /\ \/ /\ pushes' = Append(pushes, commits)
          /\ remote_ops' = Append(remote_ops, Request("push", TRUE))
          /\ pc' = "pr_query"
          /\ UNCHANGED <<exit_code, ending>>
       \/ /\ remote_ops' = Append(remote_ops, Request("push", FALSE))
          /\ IF remote_ops = <<>>
             THEN UNCHANGED <<pc, exit_code, ending>>
             ELSE Exit(1, "push_failed")
          /\ UNCHANGED pushes
    /\ UNCHANGED <<inputs, repo, version_changed, session, regen, staging, children, queries, pr_posts, template_checkouts>>

push_template_branch ==
    /\ pc = "push"
    /\ \/ /\ pushes' = Append(pushes, commits)
          /\ remote_ops' = Append(remote_ops, Request("push", TRUE))
          /\ pc' = "pr_query"
          /\ UNCHANGED <<exit_code, ending>>
       \/ \* GitCommandError: sys.exit(1), which `except Exception` lets through
          /\ remote_ops' = Append(remote_ops, Request("push", FALSE))
          /\ Exit(1, "push_failed")
          /\ UNCHANGED pushes
       \/ \* any other exception (no remote origin, no origin/TEMPLATE ref)
          /\ remote_ops' = Append(remote_ops, Request("push", FALSE))
          /\ pc' = "reset_exc"
          /\ ending' = "push_error"
          /\ UNCHANGED <<exit_code, pushes>>
    /\ UNCHANGED <<inputs, repo, version_changed, session, regen, staging, children, queries, pr_posts, template_checkouts>>

\* `'Important cookietemple template update' in pull_request['title']`
check_pull_request_exists(query_data) ==
    \E pull_request \in query_data : Contains(pull_request.title, SyncTitleText)

\* make_pull_request up to the answer of check_pull_request_exists
make_pull_request ==
    /\ pc = "pr_query"
    /\ \/ \E query_data \in SUBSET OpenPullRequests :
             /\ queries' = Append(queries, query_data)
             /\ remote_ops' = Append(remote_ops, Request("query", TRUE))
             /\ pc' = IF check_pull_request_exists(query_data) THEN "reset" ELSE "pr_submit"
             /\ UNCHANGED <<exit_code, ending>>
       \/ \* the request or the decoding of its answer raises
          /\ remote_ops' = Append(remote_ops, Request("query", FALSE))
          /\ pc' = "reset_exc"
          /\ ending' = "pr_query_failed"
          /\ UNCHANGED <<exit_code, queries>>
    /\ UNCHANGED <<inputs, repo, version_changed, session, regen, staging, children, pushes, pr_posts, template_checkouts>>

PullRequest(status) ==
    [title |-> pr_title(new_template_version), head |-> "TEMPLATE", base |-> "development",
     status_code |-> status]

submit_pull_request ==
    /\ pc = "pr_submit"
    /\ \/ /\ pr_posts' = Append(pr_posts, PullRequest(201))
          /\ remote_ops' = Append(remote_ops, Request("post", TRUE))
          /\ pc' = "reset"
          /\ UNCHANGED <<exit_code, ending>>
       \/ \* sys.exit(1) on another status
          /\ pr_posts' = Append(pr_posts, PullRequest(422))
          /\ remote_ops' = Append(remote_ops, Request("post", FALSE))
          /\ Exit(1, "pr_not_201")
       \/ \* requests.post raises
          /\ remote_ops' = Append(remote_ops, Request("post", FALSE))
          /\ pc' = "reset_exc"
          /\ ending' = "pr_submit_error"
          /\ UNCHANGED <<exit_code, pr_posts>>
    /\ UNCHANGED <<inputs, repo, version_changed, session, regen, staging, children, pushes, queries, template_checkouts>>

\* reset_target_dir, and what sync() does after it
reset_target_dir ==
    /\ pc \in {"reset", "reset_exc"}
    /\ \/ /\ active_branch' = original_branch
          /\ IF pc = "reset_exc"
             THEN Exit(1, ending)
             ELSE Exit(0, IF made_changes THEN "success" ELSE "no_changes")
       \/ /\ Exit(1, "reset_failed")
          /\ UNCHANGED active_branch
    /\ UNCHANGED <<inputs, local_branches, version_changed, session, regen, staging, children, remote, hist>>

\* The command is run again on the same project with the same template:
\* a new process and a new TemplateSync; the repository stays as it is.
Rerun ==
    /\ pc = "exited"
    /\ run = 1
    /\ ending \in {"success", "no_changes"}
    /\ commit_proc # "spawned"
    /\ stash_proc # "spawned"
    /\ run' = 2
    /\ pc' = "version"
    /\ exit_code' = 0
    /\ ending' = "running"
    /\ version_changed' = <<>>
    /\ major_update' = FALSE
    /\ minor_update' = FALSE
    /\ patch_update' = FALSE
    /\ new_template_version' = <<>>
    /\ original_branch' = None
    /\ from_branch' = None
    /\ made_changes' = FALSE
    /\ changed_files' = <<>>
    /\ blacklisted' = <<>>
    /\ commit_args' = <<>>
    /\ commit_proc' = "none"
    /\ stash_proc' = "none"
    /\ commits' = <<>>
    /\ pushes' = <<>>
    /\ queries' = <<>>
    /\ pr_posts' = <<>>
    /\ template_checkouts' = <<>>
    /\ remote_ops' = <<>>
    /\ UNCHANGED <<project_template_version, ct_template_version, cfg_sync_level, origin_TEMPLATE,
                   repo, cfg_blacklist, unsynced, root_entries, index, stash>>

Next ==
    \/ VersionCheck
    \/ TemplateSyncInit
    \/ SyncGate
    \/ inspect_sync_dir
    \/ checkout_template_branch
    \/ delete_template_branch_files
    \/ make_template_project
    \/ commit_template_changes
    \/ GitCommit
    \/ GitStash
    \/ push_template_branch
    \/ make_pull_request
    \/ submit_pull_request
    \/ reset_target_dir

Spec == Init /\ [][Next]_vars

\* Two runs in succession of a project whose policy lets the update through.
InitTwice ==
    /\ Init
    /\ project_template_version = V123
    /\ ct_template_version = V130
    /\ cfg_sync_level = Level("patch")
    /\ origin_TEMPLATE
    /\ local_branches = {"feature", "development", "TEMPLATE"}

NextTwice ==
    \/ Next
    \/ Rerun
SpecTwice == InitTwice /\ [][NextTwice]_vars

\* delete_template_branch_files alone, on the sync branch, on every listing
\* of the project root.
InitDelete ==
    /\ pc = "delete"
    /\ exit_code = 0
    /\ ending = "running"
    /\ run = 1
    /\ template_checkouts = <<Attempt("origin/TEMPLATE", TRUE, FALSE), Attempt("TEMPLATE", FALSE, TRUE)>>
    /\ version_changed = <<[flags |-> has_template_version_changed(V123, V200), last_sync |-> V123, current |-> V200]>>
    /\ major_update = TRUE
    /\ minor_update = FALSE
    /\ patch_update = FALSE
    /\ new_template_version = V200
    /\ original_branch = "development"
    /\ from_branch = "development"
    /\ made_changes = FALSE
    /\ changed_files = <<>>
    /\ cfg_blacklist = NoSection
    /\ unsynced = {}
    /\ root_entries \in RootListings
    /\ NothingStaged
    /\ NothingSent
    /\ project_template_version = V123
    /\ ct_template_version = V200
    /\ cfg_sync_level = Level("patch")
    /\ origin_TEMPLATE = TRUE
    /\ local_branches = {"feature", "development", "TEMPLATE"}
    /\ active_branch = "TEMPLATE"

NextDelete == delete_template_branch_files
SpecDelete == InitDelete /\ [][NextDelete]_vars

NextVersion == VersionCheck
SpecVersion == InitVersion /\ [][NextVersion]_vars

NextLevel == SyncGate
SpecLevel == InitLevel /\ [][NextLevel]_vars

NextFilter ==
    \/ commit_template_changes
    \/ GitCommit
    \/ GitStash
SpecFilter == InitFilter /\ [][NextFilter]_vars

\* ====================================================== the claims
\* what the formulas below read off a state
Significance(level) == IF level = "patch" THEN 1 ELSE IF level = "minor" THEN 2 ELSE 3

ExactlyOneTier == Cardinality({t \in {"major", "minor", "patch"} :
                      \/ t = "major" /\ major_update
                      \/ t = "minor" /\ minor_update
                      \/ t = "patch" /\ patch_update}) = 1

Tier == IF patch_update THEN "patch" ELSE IF minor_update THEN "minor" ELSE "major"

OneItemWithLevel ==
    /\ cfg_sync_level.present
    /\ Len(cfg_sync_level.items) = 1
    /\ cfg_sync_level.items[1].value \in {"patch", "minor", "major"}

ValidPolicy == OneItemWithLevel /\ cfg_sync_level.items[1].name = <<"ct_sync_level">>

Policy == cfg_sync_level.items[1].value

MatchesSomeGlob(f, globs) == \E i \in 1..Len(globs) : fnmatch(f, globs[i])

ListedEndings ==
    {"success", "no_changes", "checkout_failed", "delete_failed", "regeneration_failed",
     "config_error_globs", "commit_failed", "push_failed", "pr_query_failed", "pr_not_201"}

\* C1: whenever a session that passed inspect_sync_dir has ended, in any
\* of the listed ways, the active branch is original_branch.
C1_RestoredAtExit ==
    (pc = "exited" /\ ending \in ListedEndings) => active_branch = original_branch

\* C2: after check_sync_level ran under a valid policy with exactly one
\* tier flag set, it returned true exactly when the tier's significance is
\* at least the policy's, and the session went on exactly then.
C2_ThresholdRule ==
    (pc # "gate" /\ ValidPolicy /\ ExactlyOneTier) =>
        LET r == check_sync_level(cfg_sync_level, patch_update, minor_update) IN
        /\ ~r.fatal
        /\ r.result = (Significance(Tier) >= Significance(Policy))
        /\ (pc = "inspect") = (Significance(Tier) >= Significance(Policy))
        /\ (pc = "exited") = (ending = "level_refused")

\* C2 witness: policy major, tier minor, and the filter has refused.
C2_Witness ==
    /\ pc = "exited"
    /\ ending = "level_refused"
    /\ ValidPolicy
    /\ Policy = "major"
    /\ minor_update /\ ~major_update /\ ~patch_update

C4_MajorUpdate ==
    version_changed # <<>> =>
        LET a == version_parse(version_changed[1].last_sync)
            b == version_parse(version_changed[1].current)
        IN  a.major < b.major => version_changed[1].flags = Flags(TRUE, FALSE, FALSE)

\* C4 witness: major goes up while minor and micro go down.
C4_Witness ==
    /\ version_changed # <<>>
    /\ LET a == version_parse(version_changed[1].last_sync)
           b == version_parse(version_changed[1].current)
       IN  a.major < b.major /\ a.minor > b.minor /\ a.micro > b.micro
    /\ version_changed[1].flags.is_major_update

\* C5: equal major and a.minor < b.minor gives minor-update, whatever the
\* micro components are.
C5_MinorUpdate ==
    version_changed # <<>> =>
        LET a == version_parse(version_changed[1].last_sync)
            b == version_parse(version_changed[1].current)
        IN  (a.major = b.major /\ a.minor < b.minor) =>
                version_changed[1].flags = Flags(FALSE, TRUE, FALSE)

\* C5 witness: minor goes up while micro goes down.
C5_Witness ==
    /\ version_changed # <<>>
    /\ LET a == version_parse(version_changed[1].last_sync)
           b == version_parse(version_changed[1].current)
       IN  a.major = b.major /\ a.minor < b.minor /\ a.micro > b.micro
    /\ version_changed[1].flags.is_minor_update

\* C6: with equal major and minor, a.micro < b.micro gives patch-update and
\* equal triples give no update.
C6_PatchOrNoUpdate ==
    version_changed # <<>> =>
        LET a == version_parse(version_changed[1].last_sync)
            b == version_parse(version_changed[1].current)
        IN  (a.major = b.major /\ a.minor = b.minor) =>
                /\ a.micro < b.micro => version_changed[1].flags = Flags(FALSE, FALSE, TRUE)
                /\ a.micro = b.micro => version_changed[1].flags = Flags(FALSE, FALSE, FALSE)

\* C6 witness: only the micro component goes up, between version strings
\* of different lengths.
C6_Witness ==
    /\ version_changed # <<>>
    /\ LET a == version_parse(version_changed[1].last_sync)
           b == version_parse(version_changed[1].current)
       IN  a.major = b.major /\ a.minor = b.minor /\ a.micro < b.micro
    /\ Len(version_changed[1].last_sync) < Len(version_changed[1].current)
    /\ version_changed[1].flags.is_patch_update

\* C7: the result is decided by the most significant component that
\* differs, in either direction.
C7_FirstDifference ==
    version_changed # <<>> =>
        LET a == version_parse(version_changed[1].last_sync)
            b == version_parse(version_changed[1].current)
        IN  version_changed[1].flags =
                IF a.major # b.major THEN Flags(TRUE, FALSE, FALSE)
                ELSE IF a.minor # b.minor THEN Flags(FALSE, TRUE, FALSE)
                ELSE IF a.micro # b.micro THEN Flags(FALSE, FALSE, TRUE)
                ELSE Flags(FALSE, FALSE, FALSE)

\* C8: no file that matches a blacklist glob is in a sync commit.
C8_NoBlacklistedFileCommitted ==
    \A i \in 1..Len(commits) : \A f \in commits[i].files :
        ~MatchesSomeGlob(f, cfg_blacklist.items)

\* the split of commit_template_changes has been computed
SplitDone ==
    /\ pc # "commit"
    /\ cfg_blacklist.present
    /\ changed_files # <<>>
    /\ (index # {} \/ commit_proc # "none")

Permuted(globs, p) == [i \in 1..Len(globs) |-> globs[p[i]]]

\* C9: included and excluded files partition the changed files, a file is
\* excluded exactly when some glob matches it, and both sets are the same
\* for every order of the globs.
C9_Partition ==
    SplitDone =>
        LET included == Range(commit_args)
            excluded == Range(blacklisted)
            globs == cfg_blacklist.items
        IN  /\ included \cup excluded = Range(changed_files)
            /\ included \cap excluded = {}
            /\ \A f \in Range(changed_files) : f \in excluded <=> MatchesSomeGlob(f, globs)
            /\ \A p \in Permutations(1..Len(globs)) :
                   LET b == blacklisted_changed_files(changed_files, Permuted(globs, p)) IN
                   /\ Range(b) = excluded
                   /\ Range(files_to_commit(changed_files, b)) = included

\* C9 witness: a file matched by two globs, another by none.
C9_Witness ==
    /\ SplitDone
    /\ Len(cfg_blacklist.items) = 2
    /\ cfg_blacklist.items[1] # cfg_blacklist.items[2]
    /\ \E f \in Range(changed_files) :
           fnmatch(f, cfg_blacklist.items[1]) /\ fnmatch(f, cfg_blacklist.items[2])
    /\ Len(blacklisted) > Cardinality(Range(blacklisted))
    /\ commit_args # <<>>

\* the sync_level section is missing or malformed
Misconfigured == ~ValidPolicy

\* C10: under a missing or malformed sync_level section the process ends
\* with a fatal error at check_sync_level: the session never gets past the
\* policy filter, pushes nothing and posts no pull request.
C10_FatalOnMisconfiguration ==
    Misconfigured =>
        /\ pc \in {"version", "construct", "gate", "exited"}
        /\ pc = "exited" => exit_code = 1
        /\ pushes = <<>>
        /\ pr_posts = <<>>


\* ------------------------------------------------- two runs in succession
\* C11: a second run of the command on the same project with the same
\* template makes no sync commit, sends nothing and posts no pull request:
\* it ends with made_changes false, whatever the first run left out of its
\* commit.
C11_SecondRunNoChanges ==
    run = 2 =>
        /\ ~made_changes
        /\ commit_proc = "none"
        /\ commits = <<>>
        /\ pushes = <<>>
        /\ pr_posts = <<>>

\* ------------------------------------------------ the pull request posted
\* C12: every pull request posted has a title holding new_template_version,
\* the template's version, head TEMPLATE and base development; from 1.2.3 to
\* 1.3.0 the comparison says minor update, policy minor lets it through, and
\* the title holds 1.3.0.
C12_PullRequestContent ==
    /\ \A i \in 1..Len(pr_posts) :
          /\ new_template_version = ct_template_version
          /\ Contains(pr_posts[i].title, Ver(new_template_version))
          /\ pr_posts[i].head = "TEMPLATE"
          /\ pr_posts[i].base = "development"
    /\ (version_changed # <<>> /\ project_template_version = V123 /\ ct_template_version = V130) =>
          /\ version_changed[1].flags = Flags(FALSE, TRUE, FALSE)
          /\ (ValidPolicy /\ Policy = "minor") =>
                 check_sync_level(cfg_sync_level, FALSE, TRUE) = Returns(TRUE)
          /\ \A i \in 1..Len(pr_posts) : Contains(pr_posts[i].title, Ver(V130))

C12_Witness ==
    /\ project_template_version = V123
    /\ ct_template_version = V130
    /\ ValidPolicy
    /\ Policy = "minor"
    /\ Len(pr_posts) = 1
    /\ pr_posts[1].status_code = 201
    /\ pc = "exited"
    /\ ending = "success"

\* ------------------------------------------- failures on the remote side
\* C13: a session that ends because the push failed or because the hosting
\* service did not answer 201 has run reset_target_dir before it exits with
\* a status other than 0: the repository is on the original branch again.
C13_ResetBeforeFailureExit ==
    (pc = "exited" /\ ending \in {"push_failed", "push_error", "pr_not_201"}) =>
        /\ exit_code # 0
        /\ active_branch = original_branch

\* --------------------------------------------------- order of the steps
Finished(proc) == proc \in {"done", "failed"}

\* C14: the commit has ended before the stash starts, both have ended before
\* made_changes is set and anything is pushed, and a push sends a TEMPLATE
\* branch that holds the sync commit.
C14_StepsDoNotOverlap ==
    /\ stash_proc # "none" => Finished(commit_proc)
    /\ made_changes => Finished(commit_proc) /\ Finished(stash_proc)
    /\ \A i \in 1..Len(pushes) :
          commit_proc = "done" => \E j \in 1..Len(pushes[i]) : pushes[i][j].branch = "TEMPLATE"


\* ------------------------------------------------ the first three steps
InspectAborts == {"no_metadata", "not_a_repository", "uncommitted_changes"}

\* C15: a session that inspect_sync_dir refuses (no metadata file, not a
\* repository, uncommitted changes) has ended with status 1 before any
\* checkout, regeneration, staging, child process, push or request.
C15_InspectAbortsBeforeMutation ==
    ending \in InspectAborts =>
        /\ pc = "exited"
        /\ exit_code = 1
        /\ active_branch \in {"development", "master"}
        /\ original_branch \in {None, active_branch}
        /\ from_branch = None
        /\ ~made_changes
        /\ template_checkouts = <<>>
        /\ Unregenerated
        /\ NothingStaged
        /\ NothingSent

C15_Witness ==
    /\ pc = "exited"
    /\ ending = "uncommitted_changes"
    /\ original_branch = active_branch

LastCheckout == template_checkouts[Len(template_checkouts)]

\* C16: checkout_template_branch tries origin/TEMPLATE as a new local branch
\* first and the local TEMPLATE only after that failed; when both fail the
\* session ends there with status 1; the files are deleted only on TEMPLATE.
C16_CheckoutOrder ==
    /\ pc \in {"version", "construct", "gate", "inspect", "checkout"} => template_checkouts = <<>>
    /\ template_checkouts # <<>> =>
          /\ template_checkouts[1].ref = "origin/TEMPLATE"
          /\ template_checkouts[1].new_branch
          /\ Len(template_checkouts) = IF template_checkouts[1].ok THEN 1 ELSE 2
          /\ Len(template_checkouts) = 2 =>
                 /\ template_checkouts[2].ref = "TEMPLATE"
                 /\ ~template_checkouts[2].new_branch
          /\ ~LastCheckout.ok =>
                 /\ pc = "exited"
                 /\ ending = "checkout_failed"
                 /\ exit_code = 1
                 /\ active_branch = original_branch
                 /\ Unregenerated
                 /\ NothingStaged
                 /\ NothingSent
    /\ pc \in {"delete", "make", "commit"} =>
          /\ template_checkouts # <<>>
          /\ LastCheckout.ok
          /\ active_branch = "TEMPLATE"

C16_Witness ==
    /\ pc = "delete"
    /\ Len(template_checkouts) = 2
    /\ ~template_checkouts[1].ok
    /\ template_checkouts[2].ok
    /\ active_branch = "TEMPLATE"

\* --------------------------------------------------- nothing has changed
\* C17: with a working copy the regeneration left unchanged nothing is
\* committed and made_changes stays false; a push, a query or a pull request
\* is made only in a session whose made_changes is true; the session with no
\* changes ends with status 0 on the original branch.
C17_NoChangesNoRemote ==
    /\ (remote_ops # <<>> \/ pushes # <<>> \/ queries # <<>> \/ pr_posts # <<>>) => made_changes
    /\ pc \in {"push", "pr_query", "pr_submit"} => made_changes
    /\ (changed_files = <<>> /\ pc \in {"reset", "exited"}) =>
          /\ ~made_changes
          /\ NothingStaged
          /\ NothingSent
    /\ ending = "no_changes" =>
          /\ changed_files = <<>>
          /\ exit_code = 0
          /\ active_branch = original_branch

C17_Witness ==
    /\ pc = "exited"
    /\ ending = "no_changes"
    /\ LastCheckout.ok
    /\ changed_files = <<>>
    /\ ~made_changes


\* ------------------------------------------- the open pull requests found
\* an open pull request from the sync branch into the integration branch
\* whose title starts with the sync prefix
IsSyncPullRequest(pr) ==
    /\ pr.head = "TEMPLATE"
    /\ pr.base = "development"
    /\ pr.title # <<>>
    /\ pr.title[1] = SyncTitleText

\* C18: the pull request is submitted exactly when the query found no open
\* pull request from TEMPLATE into development whose title starts with the
\* sync prefix; a title holding that text elsewhere, or a pull request of
\* another branch, does not keep the session from submitting.
C18_SuppressedOnlyBySyncPullRequest ==
    \A i \in 1..Len(queries) :
        LET found == \E pr \in queries[i] : IsSyncPullRequest(pr) IN
        /\ (pc = "pr_submit" \/ pr_posts # <<>>) => ~found
        /\ (pr_posts = <<>> /\ (pc = "reset" \/ (pc = "exited" /\ ending = "success"))) => found

\* ------------------------------------------------------- failed steps
SomeRequestFailed == \E i \in 1..Len(remote_ops) : ~remote_ops[i].ok

\* C19: no failure is passed over: a failed git commit does not leave
\* made_changes set, after a failed git commit or git stash the session makes
\* no request and does not end with status 0, and a failed push, query or
\* submission ends the session with a status other than 0.
C19_NoFailureSwallowed ==
    /\ commit_proc = "failed" => ~made_changes
    /\ (commit_proc = "failed" \/ stash_proc = "failed") =>
          /\ pc \notin {"pr_query", "pr_submit", "reset"}
          /\ pc = "exited" => exit_code # 0
    /\ SomeRequestFailed =>
          /\ pc \in {"reset_exc", "exited"}
          /\ pc = "exited" => exit_code # 0

\* ------------------------------------------------------------ no retry
RemoteOrder == <<"push", "query", "post">>

\* C20: the push, the query and the submission are each made at most once
\* and in that order, and after a failed one nothing more is sent: the
\* session goes to its end with a status other than 0.
C20_NoRetry ==
    /\ Len(remote_ops) <= Len(RemoteOrder)
    /\ \A i \in 1..Len(remote_ops) :
          /\ remote_ops[i].op = RemoteOrder[i]
          /\ ~remote_ops[i].ok =>
                 /\ i = Len(remote_ops)
                 /\ pc \in {"reset_exc", "exited"}
                 /\ pc = "exited" => exit_code # 0
    /\ Len(pushes) <= 1
    /\ Len(queries) <= 1
    /\ Len(pr_posts) <= 1
    /\ Len(pushes) + Len(queries) + Len(pr_posts) <= Len(remote_ops)

C20_Witness ==
    /\ pc = "exited"
    /\ remote_ops = <<Request("push", TRUE), Request("query", TRUE), Request("post", FALSE)>>
    /\ exit_code = 1


\* ------------------------------------------------- the emptied project root
\* C21: when delete_template_branch_files has gone through without ending
\* the process, the project root holds .git and nothing else, whatever its
\* entries were (files, directories, entries that are neither); .git itself
\* is never removed by the step.
C21_OnlyGitLeft ==
    /\ GitDir \in root_entries
    /\ pc = "make" => root_entries = {GitDir}

\* ---------------------------------------------- what opens the push steps
SyncCommitMade ==
    \E i \in 1..Len(commits) :
        /\ commits[i].branch = "TEMPLATE"
        /\ commits[i].files \cap Range(files_to_commit(changed_files, blacklisted)) # {}

\* C22: made_changes is set, and the push and the pull request steps are
\* entered, only in a session that has made a sync commit holding at least
\* one file that is not blacklisted; with every changed file blacklisted, or
\* with a failed commit, made_changes stays false and nothing is sent.
\* (The commit is looked at once its process has ended.)
C22_PushOnlyAfterSyncCommit ==
    /\ made_changes => files_to_commit(changed_files, blacklisted) # <<>>
    /\ ((made_changes \/ pc \in {"push", "pr_query", "pr_submit"} \/ remote_ops # <<>>)
           /\ Finished(commit_proc)) => SyncCommitMade

====
